---- MODULE Spec2Model ----
(***************************************************************************)
(* Model of the bs-socket-server game engine:                              *)
(*   GameTimer / GamePhaseManager   (lib/game/game-timer.ts)               *)
(*   ScoreCalculator                (lib/game/score-calculator.ts)         *)
(*   GameSessionManager             (lib/game/game-session-manager.ts)     *)
(*   game handler                   (handlers/game-handler.ts)             *)
(*                                                                         *)
(* Times are integers in milliseconds.  A time in seconds (responseTime)   *)
(* is kept as an integer number of thousandths of a second: the code       *)
(* computes it as (an integer number of ms) / 1000.                        *)
(***************************************************************************)
EXTENDS Integers, Sequences, FiniteSets, Bags, TLC

----------------------------------------------------------------------------
(* Bounds of the model *)

NumQuestions == 2
MaxExtraNext == 1
MaxHostNext == 1
MaxAnswers == 4
MaxFolds == 4
MaxEntries == 3
MaxRestarts == 1

(* Program constants *)

DISPLAY == 1000
BUFFER == 500
ANSWER == 10000
RESULTS == 6000
COUNTDOWN == 3000
AnswerWindowSeconds == 15
MsPerSecond == 1000
DEFAULT_POINTS == 1
ServerTimeOffset == 0

(* Input domains *)

PlayerIds == {1, 2}
AnswerIndices == {0, 1}
TickMs == (AnswerWindowSeconds * MsPerSecond) \div 2
\* what Date.now() returns and what syncWithServer is given when a GameTimer
\* is used on its own
TimerInstants == {1, 2}
ServerTimes == {0, MsPerSecond}
\* the timestamps such a caller passes, relative to the go-signal
WindowMs == AnswerWindowSeconds * MsPerSecond
TimestampOffsets == {-1, 0, 1, WindowMs - 1, WindowMs, WindowMs + 1}

\* what a ScoreCalculator used on its own is given: an answer (the i-th answer
\* of a list is player i's), a result to fold, a score
AnswerChoices == [answerIndex : AnswerIndices, responseTime : {MsPerSecond, 2 * MsPerSecond}]
FoldResults ==
    {[playerId |-> 1, answerIndex |-> 1, isCorrect |-> TRUE, points |-> 10, rank |-> 1,
      responseTime |-> MsPerSecond],
     [playerId |-> 1, answerIndex |-> 1, isCorrect |-> TRUE, points |-> 8, rank |-> 2,
      responseTime |-> 2 * MsPerSecond],
     [playerId |-> 1, answerIndex |-> 0, isCorrect |-> FALSE, points |-> 0, rank |-> 0,
      responseTime |-> MsPerSecond]}
ScoreChoices == {0, 8, 10}

\* the responseTime values a client sends in player:answer
ClientResponseTimes == {0, TickMs}

\* what Date.now() returns when the orchestrator is driven by any caller
Instants == {1, 1 + TickMs}
\* the timestamps such a caller submits: one before every go-signal, one in the
\* window of every go-signal
SubmitInstants == {0, 1 + TickMs}

(* The questions a session can be configured with: config.questions is the  *)
(* first questionCount of them, question i of the code is Questions[i + 1] *)
Questions == [i \in 1..NumQuestions |-> [id |-> i - 1, correctIndex |-> i % 2]]

NoQuestion == [id |-> -1, correctIndex |-> -1]
NoTimer == [cb |-> "none", q |-> -1, due |-> 0]
NoSuperseded == [q |-> -1, pending |-> {}]
NoCall == [op |-> "none", arg |-> 0, threw |-> FALSE, value |-> 0, valid |-> FALSE]

----------------------------------------------------------------------------
VARIABLES
    now,                  \* the last value read from Date.now()
    questionCount,        \* config.questions.length
    currentPhase,         \* GamePhaseManager.currentPhase
    phaseStartTime,       \* GamePhaseManager.phaseStartTime
    serverTimeOffset,     \* GameTimer.serverTimeOffset
    goSignalTime,         \* GameTimer.goSignalTime
    goRecorded,           \* history: sendGoSignal ran since construction or reset()
    phase,                \* state.phase
    currentQuestionIndex, \* state.currentQuestionIndex
    currentQuestion,      \* state.currentQuestion
    answers,              \* state.answers, in insertion order
    playerStats,          \* state.playerStats, in insertion order
    lastResults,          \* state.lastResults
    lastCorrectIndex,     \* state.lastCorrectIndex
    phaseTimeout,         \* GameSessionManager.phaseTimeout (the handle)
    timers,               \* the timeouts of this session pending in the event loop
    ret,                  \* what the step just taken returned, when it was submitAnswer
    answerEntered,        \* history: the current question entered its answer phase
    resultsRuns,          \* history: runs of startResultsPhase for the current question
    closedBy,             \* history: how results was entered for the current question
    acceptCount,          \* history: accepted submissions per player, current question
    scoredCount,          \* history: times a player's answer was scored, current question
    destroyed,            \* history: destroy() was called
    earned,               \* history: per player, the points and the correct results
                          \* of the player's ScoringResults since registration
    started,              \* game handler: host:start-game was handled
    active,               \* game handler: activeSessions holds the session
    hTimers,              \* game handler: its pending timeouts, a bag of [kind, due]
    hAwaits,              \* game handler: its suspended async functions, a bag of kinds
    hostNexts,            \* game handler: host:next-question events handled so far
    announced,            \* game handler: the last phase announced to the clients
    restarts,             \* game handler: host:start-game events handled for a
                          \* session that was started before
    superseded,           \* the orchestrator that activeSessions.set replaced: its
                          \* question index and the timeouts still pending on it
    timerCall,            \* the last call made on a GameTimer used on its own
    scoreCall             \* the last call made on a ScoreCalculator used on its own

gameTimerVars == <<serverTimeOffset, goSignalTime, goRecorded>>
timerVars == <<currentPhase, phaseStartTime, gameTimerVars>>
sessionVars == <<phase, currentQuestionIndex, currentQuestion, answers, playerStats,
                 lastResults, lastCorrectIndex, phaseTimeout, timers>>
historyVars == <<answerEntered, resultsRuns, closedBy, acceptCount, scoredCount,
                 destroyed, earned>>
handlerVars == <<started, active, hTimers, hAwaits, hostNexts, announced>>
restartVars == <<restarts, superseded>>
callVars == <<timerCall, scoreCall>>
outerVars == <<questionCount, handlerVars, restartVars, callVars>>
gameVars == <<now, questionCount, timerVars, sessionVars, ret, historyVars,
              handlerVars, restartVars>>
vars == <<gameVars, callVars>>

Min(a, b) == IF a < b THEN a ELSE b

----------------------------------------------------------------------------
(* GameTimer *)

\* Date.now() does not go back: a read returns t and leaves now' = t
ClockRead(t) == t >= now

\* t is what Date.now() returns; the orchestrator never calls syncWithServer,
\* its serverTimeOffset stays at its initial value
GetServerTime(t) == t + serverTimeOffset

\* mutant: the go-signal is not recorded
SendGoSignalNotRecorded(t) == 0

SendGoSignal(t) == GetServerTime(t)

GoSignalMissing(go) == go = 0

\* sendGoSignal() as a step; t is what Date.now() returns
RecordGoSignal(t) ==
    /\ goSignalTime' = SendGoSignal(t)
    /\ goRecorded' = TRUE
    /\ UNCHANGED serverTimeOffset

\* reset()
Reset ==
    /\ goSignalTime' = 0
    /\ goRecorded' = FALSE
    /\ UNCHANGED serverTimeOffset

\* in thousandths of a second; defined when ~GoSignalMissing(go)
CalculateResponseTime(go, answerTimestamp) == answerTimestamp - go

IsAnswerValid(go, answerTimestamp) ==
    LET responseTime == CalculateResponseTime(go, answerTimestamp)
    IN  responseTime >= 0 /\ responseTime <= AnswerWindowSeconds * MsPerSecond

----------------------------------------------------------------------------
(* ScoreCalculator *)

\* mutant: no default for the ranks RANK_POINTS does not list
GetPointsForRankNoDefault(rank) ==
    CASE rank = 1 -> 10
      [] rank = 2 -> 8
      [] rank = 3 -> 5
      [] OTHER -> 0

GetPointsForRank(rank) ==
    CASE rank = 1 -> 10
      [] rank = 2 -> 8
      [] rank = 3 -> 5
      [] OTHER -> DEFAULT_POINTS

\* mutant: x goes before the elements it ties with
RECURSIVE InsertByTimeBeforeEqual(_, _)
InsertByTimeBeforeEqual(x, s) ==
    IF s = <<>> THEN <<x>>
    ELSE IF Head(s).responseTime - x.responseTime >= 0
         THEN <<x>> \o s
         ELSE <<Head(s)>> \o InsertByTimeBeforeEqual(x, Tail(s))

\* x goes after every element that does not compare greater: the sort is stable
RECURSIVE InsertByTime(_, _)
InsertByTime(x, s) ==
    IF s = <<>> THEN <<x>>
    ELSE IF Head(s).responseTime - x.responseTime > 0
         THEN <<x>> \o s
         ELSE <<Head(s)>> \o InsertByTime(x, Tail(s))

RECURSIVE SortByTime(_)
SortByTime(s) ==
    IF s = <<>> THEN <<>>
    ELSE InsertByTime(s[Len(s)], SortByTime(SubSeq(s, 1, Len(s) - 1)))

\* mutant: every correct answer is ranked first
CalculateScoresAllFirst(ans, correctIndex) ==
    [i \in 1..Len(ans) |->
        [playerId |-> ans[i].playerId,
         answerIndex |-> ans[i].answerIndex,
         isCorrect |-> ans[i].answerIndex = correctIndex,
         points |-> IF ans[i].answerIndex = correctIndex THEN 10 ELSE 0,
         rank |-> IF ans[i].answerIndex = correctIndex THEN 1 ELSE 0,
         responseTime |-> ans[i].responseTime]]

CalculateScores(ans, correctIndex) ==
    LET correctAnswers == SelectSeq(ans, LAMBDA a : a.answerIndex = correctIndex)
        sorted == SortByTime(correctAnswers)
        incorrectAnswers == SelectSeq(ans, LAMBDA a : a.answerIndex # correctIndex)
        good == [i \in 1..Len(sorted) |->
                   [playerId |-> sorted[i].playerId,
                    answerIndex |-> sorted[i].answerIndex,
                    isCorrect |-> TRUE,
                    points |-> GetPointsForRank(i),
                    rank |-> i,
                    responseTime |-> sorted[i].responseTime]]
        bad == [i \in 1..Len(incorrectAnswers) |->
                   [playerId |-> incorrectAnswers[i].playerId,
                    answerIndex |-> incorrectAnswers[i].answerIndex,
                    isCorrect |-> FALSE,
                    points |-> 0,
                    rank |-> 0,
                    responseTime |-> incorrectAnswers[i].responseTime]]
    IN  good \o bad

\* x goes after every element that does not sort after it: the sort is stable
RECURSIVE InsertByScore(_, _)
InsertByScore(x, s) ==
    IF s = <<>> THEN <<x>>
    ELSE IF x.score - Head(s).score > 0
         THEN <<x>> \o s
         ELSE <<Head(s)>> \o InsertByScore(x, Tail(s))

RECURSIVE SortByScore(_)
SortByScore(s) ==
    IF s = <<>> THEN <<>>
    ELSE InsertByScore(s[Len(s)], SortByScore(SubSeq(s, 1, Len(s) - 1)))

\* mutant: the rank of a player is one more than the number of better scores
RankSharedOnTie(sorted, index) ==
    1 + Cardinality({j \in 1..Len(sorted) : sorted[j].score > sorted[index].score})

\* the rank given to the player at position index (from 1) of the sorted list
RankAt(sorted, index) == index

\* playerScores is the list of the [playerId, score] entries of the map
CalculateLeaderboard(playerScores) ==
    LET sorted == SortByScore(playerScores)
    IN  [i \in 1..Len(sorted) |->
           [playerId |-> sorted[i].playerId, score |-> sorted[i].score,
            rank |-> RankAt(sorted, i)]]

CalculateFinalStats(stats) == SortByScore(stats)

\* mutant: the best streak follows the current one
BestStreakLatest(streak, best) == streak

BestStreak(streak, best) == IF streak > best THEN streak ELSE best

\* mutant: the score is replaced by the points of the result
UpdatePlayerStatsOverwrite(stats, r) ==
    [stats EXCEPT !.score = r.points,
                  !.correctAnswers = IF r.isCorrect THEN @ + 1 ELSE @]

\* mutant: the average is worked out before correctAnswers is incremented
AverageResponseTimeBeforeCount(total, correct) == [num |-> total, den |-> correct - 1]

\* totalResponseTime / correctAnswers, as the fraction num / den
AverageResponseTime(total, correct) == [num |-> total, den |-> correct]

\* averageResponseTime is the fraction num / den, in thousandths of a second
UpdatePlayerStats(stats, r) ==
    LET scored == [stats EXCEPT !.score = @ + r.points]
    IN  IF r.isCorrect
        THEN LET correct == scored.correctAnswers + 1
                 streak == scored.currentStreak + 1
                 total == scored.totalResponseTime + r.responseTime
             IN  [scored EXCEPT
                    !.correctAnswers = correct,
                    !.currentStreak = streak,
                    !.bestStreak = BestStreak(streak, @),
                    !.firstPlaceCount = IF r.rank = 1 THEN @ + 1 ELSE @,
                    !.totalResponseTime = total,
                    !.averageResponseTime = AverageResponseTime(total, correct)]
        ELSE [scored EXCEPT !.currentStreak = 0]

\* mutant: the fold works on the record passed in
PassedInAfterFoldAliased(stats, r) == UpdatePlayerStats(stats, r)

\* the record passed to updatePlayerStats, as it is after the call: the fold
\* works on a copy
PassedInAfterFold(stats, r) == stats

InitializePlayerStats(playerId, nickname, avatar) ==
    [playerId |-> playerId, nickname |-> nickname, avatar |-> avatar,
     score |-> 0, correctAnswers |-> 0, firstPlaceCount |-> 0,
     totalResponseTime |-> 0, averageResponseTime |-> [num |-> 0, den |-> 1],
     bestStreak |-> 0, currentStreak |-> 0]

----------------------------------------------------------------------------
(* GameSessionManager: helpers *)

\* mutant: the phase is not checked
WrongPhaseNotChecked(ph) == FALSE

WrongPhase(ph) == ph # "answer"

\* mutant: a second answer of a player is not refused
HasAnsweredNotChecked(ans, playerId) == FALSE

HasAnswered(ans, playerId) == \E i \in 1..Len(ans) : ans[i].playerId = playerId

HasPlayer(stats, playerId) == \E i \in 1..Len(stats) : stats[i].playerId = playerId

\* mutant: the stats of a registered player are kept
SetPlayerStatsKeepExisting(stats, st) ==
    IF \E i \in 1..Len(stats) : stats[i].playerId = st.playerId
    THEN stats
    ELSE Append(stats, st)

\* Map.set: an existing key keeps its place, a new key goes last
SetPlayerStats(stats, st) ==
    IF HasPlayer(stats, st.playerId)
    THEN [i \in 1..Len(stats) |->
            IF stats[i].playerId = st.playerId THEN st ELSE stats[i]]
    ELSE Append(stats, st)

\* mutant: only the first result is folded
UpdateAllPlayerStatsFirstOnly(stats, results) ==
    IF results = <<>> THEN stats
    ELSE [i \in 1..Len(stats) |->
            IF stats[i].playerId = Head(results).playerId
            THEN UpdatePlayerStats(stats[i], Head(results))
            ELSE stats[i]]

\* updatePlayerStats(results): the results are folded in order
RECURSIVE UpdateAllPlayerStats(_, _)
UpdateAllPlayerStats(stats, results) ==
    IF results = <<>> THEN stats
    ELSE LET r == Head(results)
             folded == [i \in 1..Len(stats) |->
                          IF stats[i].playerId = r.playerId
                          THEN UpdatePlayerStats(stats[i], r)
                          ELSE stats[i]]
         IN  UpdateAllPlayerStats(folded, Tail(results))

CalculateQuestionResults(question, ans) ==
    IF question = NoQuestion THEN <<>>
    ELSE CalculateScores(ans, question.correctIndex)

AllAnswered(ans, stats) == Len(ans) = Len(stats)

\* mutant: the answers of the previous question are kept
ClearAnswersKept(ans) == ans

\* answers.clear()
ClearAnswers(ans) == <<>>

\* mutant: the handle is dropped and the timeout is left pending
ClearPhaseTimeoutHandleOnly(T) == [T EXCEPT !.phaseTimeout = NoTimer]

\* T is [phaseTimeout, timers, q, at]: the handle, the pending timeouts, the
\* index of the question the call works on (a timeout is tagged with it) and
\* the instant of the call.
\* clearTimeout of a handle that is no longer pending removes nothing.
ClearPhaseTimeout(T) ==
    IF T.phaseTimeout # NoTimer
    THEN [T EXCEPT !.phaseTimeout = NoTimer, !.timers = @ \ {T.phaseTimeout}]
    ELSE T

\* mutant: the pending timeout is not cancelled first
SchedulePhaseTransitionNoClear(T, duration, callback) ==
    LET handle == [cb |-> callback, q |-> T.q, due |-> T.at + duration]
    IN  [T EXCEPT !.phaseTimeout = handle, !.timers = @ \cup {handle}]

SchedulePhaseTransition(T, duration, callback) ==
    LET cleared == ClearPhaseTimeout(T)
        handle == [cb |-> callback, q |-> T.q, due |-> T.at + duration]
    IN  [cleared EXCEPT !.phaseTimeout = handle, !.timers = @ \cup {handle}]

Pending(q, t) == [phaseTimeout |-> phaseTimeout, timers |-> timers, q |-> q, at |-> t]

----------------------------------------------------------------------------
(* GamePhaseManager *)

\* mutant: the phase is replaced and its entry instant is left as it was
SetPhaseKeepsInstant(p, t) ==
    /\ ClockRead(t)
    /\ currentPhase' = p
    /\ UNCHANGED phaseStartTime

SetPhase(p, t) ==
    /\ ClockRead(t)
    /\ currentPhase' = p
    /\ phaseStartTime' = GetServerTime(t)

----------------------------------------------------------------------------
(* GameSessionManager: the phases.  Each takes the pending timeouts T left  *)
(* by what ran before it in the same call, and the clock readings t.       *)

StartDisplayPhase(T, t) ==
    /\ SetPhase("display", t)
    /\ phase' = "display"
    /\ LET S == SchedulePhaseTransition(T, DISPLAY, "buffer")
       IN  phaseTimeout' = S.phaseTimeout /\ timers' = S.timers

\* mutant: the go-signal is sent when the buffer phase starts
StartBufferPhaseSendsGoSignal(T, t) ==
    /\ SetPhase("buffer", t)
    /\ phase' = "buffer"
    /\ RecordGoSignal(t)
    /\ LET S == SchedulePhaseTransition(T, BUFFER, "answer")
       IN  phaseTimeout' = S.phaseTimeout /\ timers' = S.timers
    /\ UNCHANGED <<currentQuestionIndex, currentQuestion, answers,
                   playerStats, lastResults, lastCorrectIndex, historyVars>>

StartBufferPhase(T, t) ==
    /\ SetPhase("buffer", t)
    /\ phase' = "buffer"
    /\ LET S == SchedulePhaseTransition(T, BUFFER, "answer")
       IN  phaseTimeout' = S.phaseTimeout /\ timers' = S.timers
    /\ UNCHANGED <<gameTimerVars, currentQuestionIndex, currentQuestion, answers,
                   playerStats, lastResults, lastCorrectIndex, historyVars>>

StartAnswerPhase(T, t, t2) ==
    /\ SetPhase("answer", t)
    /\ phase' = "answer"
    /\ t2 >= t
    /\ RecordGoSignal(t2)
    /\ LET S == SchedulePhaseTransition(T, ANSWER, "results")
       IN  phaseTimeout' = S.phaseTimeout /\ timers' = S.timers
    /\ answerEntered' = TRUE
    /\ UNCHANGED <<currentQuestionIndex, currentQuestion, answers, playerStats,
                   lastResults, lastCorrectIndex,
                   resultsRuns, closedBy, acceptCount, scoredCount, destroyed,
                   earned>>

\* mutant: the cached correct index is left as it was
CachedCorrectIndexStale(question, last) == last

CachedCorrectIndex(question, last) ==
    IF question # NoQuestion THEN question.correctIndex ELSE last

\* the results of a registered player are added to what the player earned
RECURSIVE Earn(_, _, _)
Earn(e, stats, results) ==
    IF results = <<>> THEN e
    ELSE LET r == Head(results)
             added == IF HasPlayer(stats, r.playerId)
                      THEN [e EXCEPT ![r.playerId] =
                              [points |-> @.points + r.points,
                               correct |-> @.correct + (IF r.isCorrect THEN 1 ELSE 0)]]
                      ELSE e
         IN  Earn(added, stats, Tail(results))

\* ans is the answer set at the time of the call, how is "early" or "timeout"
StartResultsPhase(T, ans, how, t) ==
    LET results == CalculateQuestionResults(currentQuestion, ans)
    IN  /\ SetPhase("results", t)
        /\ phase' = "results"
        /\ lastResults' = results
        /\ lastCorrectIndex' = CachedCorrectIndex(currentQuestion, lastCorrectIndex)
        /\ playerStats' = UpdateAllPlayerStats(playerStats, results)
        /\ phaseTimeout' = T.phaseTimeout
        /\ timers' = T.timers
        /\ resultsRuns' = Min(resultsRuns + 1, 2)
        /\ closedBy' = closedBy \cup {how}
        /\ scoredCount' = [p \in PlayerIds |->
                             IF \E i \in 1..Len(results) : results[i].playerId = p
                             THEN Min(scoredCount[p] + 1, 2)
                             ELSE scoredCount[p]]
        /\ earned' = Earn(earned, playerStats, results)

\* mutant: the pending timeout is not cancelled
EndGameNoClear(T, t) ==
    /\ SetPhase("final", t)
    /\ phase' = "final"
    /\ phaseTimeout' = T.phaseTimeout
    /\ timers' = T.timers

EndGame(T, t) ==
    /\ SetPhase("final", t)
    /\ phase' = "final"
    /\ LET C == ClearPhaseTimeout(T)
       IN  phaseTimeout' = C.phaseTimeout /\ timers' = C.timers

----------------------------------------------------------------------------
(* GameSessionManager: the public operations *)

AddPlayer(playerId, nickname, avatar) ==
    /\ playerStats' = SetPlayerStats(playerStats,
                         InitializePlayerStats(playerId, nickname, avatar))
    /\ earned' = [earned EXCEPT ![playerId] = [points |-> 0, correct |-> 0]]
    /\ ret' = "none"
    /\ UNCHANGED <<now, timerVars, phase, currentQuestionIndex, currentQuestion,
                   answers, lastResults, lastCorrectIndex, phaseTimeout, timers,
                   answerEntered, resultsRuns, closedBy, acceptCount, scoredCount,
                   destroyed>>

StartGame(t) ==
    /\ SetPhase("countdown", t)
    /\ phase' = "countdown"
    /\ now' = t
    /\ ret' = "none"
    /\ UNCHANGED <<gameTimerVars, currentQuestionIndex, currentQuestion, answers,
                   playerStats, lastResults, lastCorrectIndex, phaseTimeout, timers,
                   historyVars>>

NextQuestion(t) ==
    /\ currentQuestionIndex < questionCount + MaxExtraNext
    /\ answers' = ClearAnswers(answers)
    /\ currentQuestionIndex' = currentQuestionIndex + 1
    /\ IF currentQuestionIndex' >= questionCount
       THEN /\ EndGame(Pending(currentQuestionIndex + 1, t), t)
            /\ Reset
            /\ UNCHANGED currentQuestion
       ELSE /\ currentQuestion' = Questions[currentQuestionIndex' + 1]
            /\ Reset
            /\ StartDisplayPhase(Pending(currentQuestionIndex + 1, t), t)
    /\ ret' = "none"
    /\ answerEntered' = FALSE
    /\ resultsRuns' = 0
    /\ closedBy' = {}
    /\ acceptCount' = [p \in PlayerIds |-> 0]
    /\ scoredCount' = [p \in PlayerIds |-> 0]
    /\ now' = t
    /\ UNCHANGED <<playerStats, lastResults, lastCorrectIndex, destroyed, earned>>

Destroy ==
    /\ LET C == ClearPhaseTimeout(Pending(currentQuestionIndex, now))
       IN  phaseTimeout' = C.phaseTimeout /\ timers' = C.timers
    /\ destroyed' = TRUE
    /\ ret' = "none"
    /\ UNCHANGED <<now, timerVars, phase, currentQuestionIndex, currentQuestion,
                   answers, playerStats, lastResults, lastCorrectIndex,
                   answerEntered, resultsRuns, closedBy, acceptCount, scoredCount,
                   earned>>

\* mutant: the answer is stored before it is refused
RejectedStored(playerId, answerIndex, timestamp) ==
    /\ ret' = "false"
    /\ answers' = Append(answers, [playerId |-> playerId,
                                   answerIndex |-> answerIndex,
                                   responseTime |-> 0,
                                   timestamp |-> timestamp])
    /\ UNCHANGED <<now, timerVars, phase, currentQuestionIndex, currentQuestion,
                   playerStats, lastResults, lastCorrectIndex, phaseTimeout, timers,
                   historyVars>>

Rejected(playerId, answerIndex, timestamp) ==
    /\ ret' = "false"
    /\ UNCHANGED <<now, timerVars, sessionVars, historyVars>>

Accepted(playerId, answerIndex, timestamp, t) ==
    LET answer == [playerId |-> playerId,
                   answerIndex |-> answerIndex,
                   responseTime |-> CalculateResponseTime(goSignalTime, timestamp),
                   timestamp |-> timestamp]
        stored == Append(answers, answer)
    IN  /\ answers' = stored
        /\ acceptCount' = [acceptCount EXCEPT ![playerId] = Min(@ + 1, 2)]
        /\ ret' = "true"
        /\ IF AllAnswered(stored, playerStats)
           THEN /\ StartResultsPhase(ClearPhaseTimeout(Pending(currentQuestionIndex, t)),
                                     stored, "early", t)
                /\ now' = t
                /\ UNCHANGED <<gameTimerVars, currentQuestionIndex, currentQuestion,
                               answerEntered, destroyed>>
           ELSE UNCHANGED <<now, timerVars, phase, currentQuestionIndex, currentQuestion,
                            playerStats, lastResults, lastCorrectIndex, phaseTimeout,
                            timers, answerEntered, resultsRuns, closedBy, scoredCount,
                            destroyed, earned>>

\* t is what Date.now() returns if the call reads the clock
SubmitAnswer(playerId, answerIndex, timestamp, t) ==
    IF WrongPhase(phase)
       THEN Rejected(playerId, answerIndex, timestamp)
       ELSE IF HasAnswered(answers, playerId)
       THEN Rejected(playerId, answerIndex, timestamp)
       ELSE IF GoSignalMissing(goSignalTime)
       THEN /\ ret' = "throw"
            /\ UNCHANGED <<now, timerVars, sessionVars, historyVars>>
       ELSE IF ~IsAnswerValid(goSignalTime, timestamp)
       THEN Rejected(playerId, answerIndex, timestamp)
       ELSE Accepted(playerId, answerIndex, timestamp, t)

----------------------------------------------------------------------------
(* The event loop: a pending timeout fires and runs its callback *)

\* t is the timeout that fires, t1 and t2 what Date.now() returns in the callback
TimerFire(t, t1, t2) ==
    LET T == [Pending(currentQuestionIndex, t1) EXCEPT !.timers = @ \ {t}]
    IN  /\ t \in timers
        /\ CASE t.cb = "buffer" -> StartBufferPhase(T, t1) /\ now' = t1
             [] t.cb = "answer" -> StartAnswerPhase(T, t1, t2) /\ now' = t2
             [] t.cb = "results" ->
                  /\ StartResultsPhase(T, answers, "timeout", t1)
                  /\ now' = t1
                  /\ UNCHANGED <<gameTimerVars, currentQuestionIndex,
                                 currentQuestion, answers, answerEntered,
                                 acceptCount, destroyed>>
        /\ ret' = "none"

----------------------------------------------------------------------------
(* game-handler.ts.  The handler's timeouts fire when due; an awaited call   *)
(* to the data store suspends the function, which resumes at any later time *)

One(x) == SetToBag({x})

\* q is the index of the orchestrator's current question when ph is announced
Announce(ph, q) == announced' = [ph |-> ph, q |-> q]

\* startNextQuestion up to its first await; H is the handler's pending timeouts
StartNextQuestion(H) ==
    /\ NextQuestion(now)
    /\ IF phase' = "final"
       THEN /\ hAwaits' = hAwaits (+) One("endGame")
            /\ hTimers' = H
            /\ UNCHANGED announced
       ELSE IF currentQuestion' = NoQuestion
       THEN /\ hTimers' = H
            /\ UNCHANGED <<hAwaits, announced>>
       ELSE /\ Announce("question", currentQuestionIndex')
            /\ hTimers' = H (+) One([kind |-> "go", due |-> now + DISPLAY + BUFFER])
            /\ UNCHANGED hAwaits

\* showResults up to its first await
ShowResults ==
    IF currentQuestion = NoQuestion
    THEN UNCHANGED <<hAwaits, announced>>
    ELSE /\ Announce("results", currentQuestionIndex)
         /\ hAwaits' = hAwaits (+) One("showResults")

\* stored: the update of the session status succeeds; when it throws, the
\* catch block reports the error and the handler ends
HostStartGame(stored) ==
    /\ ~started
    /\ started' = TRUE
    /\ active' = TRUE
    /\ playerStats' = SetPlayerStats(
                         SetPlayerStats(playerStats, InitializePlayerStats(1, "nick", "avatar")),
                         InitializePlayerStats(2, "nick", "avatar"))
    /\ IF stored
       THEN /\ SetPhase("countdown", now)
            /\ phase' = "countdown"
            /\ Announce("countdown", currentQuestionIndex)
            /\ hTimers' = hTimers (+) One([kind |-> "next", due |-> now + COUNTDOWN])
       ELSE UNCHANGED <<currentPhase, phaseStartTime, phase, announced, hTimers>>
    /\ ret' = "none"
    /\ UNCHANGED <<now, gameTimerVars, currentQuestionIndex, currentQuestion, answers,
                   lastResults, lastCorrectIndex, phaseTimeout, timers, historyVars,
                   hAwaits, hostNexts>>

\* mutant: the timestamp is worked out from the response time the client sent
ServerTimestampFromClient(responseTime, t) == t - responseTime

\* const serverTimestamp = Date.now(): the responseTime of the message is read
\* and not used
ServerTimestamp(responseTime, t) == t

\* responseTime is the value the client sent in the message
PlayerAnswer(playerId, answerIndex, responseTime) ==
    /\ active
    /\ SubmitAnswer(playerId, answerIndex, ServerTimestamp(responseTime, now), now)
    /\ UNCHANGED handlerVars

HostNextQuestion ==
    /\ started
    /\ hostNexts < MaxHostNext
    /\ hostNexts' = hostNexts + 1
    /\ IF active
       THEN StartNextQuestion(hTimers)
       ELSE /\ ret' = "none"
            /\ UNCHANGED <<now, timerVars, sessionVars, historyVars,
                           hTimers, hAwaits, announced>>
    /\ UNCHANGED <<started, active>>

HandlerTimerFire(h) ==
    /\ BagIn(h, hTimers)
    /\ h.due = now
    /\ CASE h.kind = "next" -> StartNextQuestion(hTimers (-) One(h))
         [] h.kind = "go" ->
              /\ Announce("answers", currentQuestionIndex)
              /\ hTimers' = (hTimers (-) One(h)) (+)
                              One([kind |-> "show", due |-> now + ANSWER])
              /\ ret' = "none"
              /\ UNCHANGED <<now, timerVars, sessionVars, historyVars, hAwaits>>
         [] h.kind = "show" ->
              /\ ShowResults
              /\ hTimers' = hTimers (-) One(h)
              /\ ret' = "none"
              /\ UNCHANGED <<now, timerVars, sessionVars, historyVars>>
    /\ UNCHANGED <<started, active, hostNexts>>

\* mutant: showResults does not schedule the next question
ShowResultsResumeNoNext ==
    /\ BagIn("showResults", hAwaits)
    /\ hAwaits' = hAwaits (-) One("showResults")
    /\ ret' = "none"
    /\ UNCHANGED <<now, timerVars, sessionVars, historyVars,
                   started, active, hostNexts, announced, hTimers>>

\* the rest of showResults, after its awaits: saveAnswersToDatabase and
\* updatePlayerScores catch the errors of their writes, showResults goes on
\* whether the scores were stored or not
ShowResultsResume ==
    /\ BagIn("showResults", hAwaits)
    /\ hAwaits' = hAwaits (-) One("showResults")
    /\ hTimers' = hTimers (+) One([kind |-> "next", due |-> now + RESULTS])
    /\ ret' = "none"
    /\ UNCHANGED <<now, timerVars, sessionVars, historyVars,
                   started, active, hostNexts, announced>>

\* the rest of endGame, after its await.  stored: the update of the session
\* status succeeds; when it throws, the catch block reports the error and
\* endGame ends
EndGameResume(stored) ==
    /\ BagIn("endGame", hAwaits)
    /\ hAwaits' = hAwaits (-) One("endGame")
    /\ IF stored
       THEN /\ Announce("finished", currentQuestionIndex)
            /\ active' = FALSE
            /\ Destroy
       ELSE /\ ret' = "none"
            /\ UNCHANGED <<now, timerVars, sessionVars, historyVars, announced, active>>
    /\ UNCHANGED <<started, hTimers, hostNexts>>

\* a timeout of the orchestrator fires when due
OrchestratorTimerFire(t) ==
    /\ t.due = now
    /\ TimerFire(t, now, now)
    /\ UNCHANGED handlerVars

\* host:start-game for a session that was started before.  The handler does
\* not look the session up in activeSessions: it builds a new orchestrator and
\* activeSessions.set replaces the earlier one, whose timeouts and the
\* handler's timeouts that hold it stay in the event loop.  stored is as in
\* HostStartGame.
HostStartGameAgain(stored) ==
    /\ started
    /\ restarts < MaxRestarts
    /\ hAwaits = EmptyBag
    /\ restarts' = restarts + 1
    /\ superseded' = [q |-> currentQuestionIndex,
                      pending |-> {[kind |-> t.cb, due |-> t.due] : t \in timers}
                                  \cup {[kind |-> h.kind, due |-> h.due] :
                                           h \in BagToSet(hTimers)}]
    /\ active' = TRUE
    /\ serverTimeOffset' = ServerTimeOffset
    /\ goSignalTime' = 0
    /\ goRecorded' = FALSE
    /\ currentQuestionIndex' = -1
    /\ currentQuestion' = NoQuestion
    /\ answers' = <<>>
    /\ lastResults' = <<>>
    /\ lastCorrectIndex' = 0
    /\ phaseTimeout' = NoTimer
    /\ timers' = {}
    /\ playerStats' = SetPlayerStats(
                         SetPlayerStats(<<>>, InitializePlayerStats(1, "nick", "avatar")),
                         InitializePlayerStats(2, "nick", "avatar"))
    /\ IF stored
       THEN /\ currentPhase' = "countdown"
            /\ phaseStartTime' = now + ServerTimeOffset
            /\ phase' = "countdown"
            /\ Announce("countdown", -1)
            /\ hTimers' = One([kind |-> "next", due |-> now + COUNTDOWN])
       ELSE /\ currentPhase' = "waiting"
            /\ phaseStartTime' = 0
            /\ phase' = "waiting"
            /\ hTimers' = EmptyBag
            /\ UNCHANGED announced
    /\ ret' = "none"
    /\ answerEntered' = FALSE
    /\ resultsRuns' = 0
    /\ closedBy' = {}
    /\ acceptCount' = [p \in PlayerIds |-> 0]
    /\ scoredCount' = [p \in PlayerIds |-> 0]
    /\ destroyed' = FALSE
    /\ earned' = [p \in PlayerIds |-> [points |-> 0, correct |-> 0]]
    /\ UNCHANGED <<now, started, hAwaits, hostNexts>>

OrchestratorKinds == {"buffer", "answer", "results"}

\* a timeout left by the replaced orchestrator, or by the handler's chain that
\* holds it, runs when due.  The callbacks are those of TimerFire and
\* HandlerTimerFire, run on the replaced orchestrator: its state is followed
\* as far as its question index, and its awaited writes return at once.
\* player:answer goes to the orchestrator in activeSessions, so the replaced
\* one gets no answer and enters results by its timeout only.
SupersededTimerFire(s) ==
    LET rest == superseded.pending \ {s}
        q == superseded.q
    IN  /\ s \in superseded.pending
        /\ s.due = now
        /\ CASE s.kind = "next" ->
                  IF q + 1 >= questionCount
                  THEN /\ superseded' = [q |-> q + 1,
                                         pending |-> {r \in rest :
                                                        r.kind \notin OrchestratorKinds}]
                       /\ Announce("finished", q + 1)
                       /\ active' = FALSE
                  ELSE /\ superseded' =
                            [q |-> q + 1,
                             pending |-> {r \in rest : r.kind \notin OrchestratorKinds}
                                         \cup {[kind |-> "buffer", due |-> now + DISPLAY],
                                               [kind |-> "go",
                                                due |-> now + DISPLAY + BUFFER]}]
                       /\ Announce("question", q + 1)
                       /\ UNCHANGED active
             [] s.kind = "go" ->
                  /\ superseded' = [superseded EXCEPT !.pending =
                                      rest \cup {[kind |-> "show", due |-> now + ANSWER]}]
                  /\ Announce("answers", q)
                  /\ UNCHANGED active
             [] s.kind = "show" ->
                  /\ superseded' = [superseded EXCEPT !.pending =
                                      rest \cup {[kind |-> "next", due |-> now + RESULTS]}]
                  /\ Announce("results", q)
                  /\ UNCHANGED active
             [] s.kind = "buffer" ->
                  /\ superseded' = [superseded EXCEPT !.pending =
                                      rest \cup {[kind |-> "answer", due |-> now + BUFFER]}]
                  /\ UNCHANGED <<announced, active>>
             [] s.kind = "answer" ->
                  /\ superseded' = [superseded EXCEPT !.pending =
                                      rest \cup {[kind |-> "results", due |-> now + ANSWER]}]
                  /\ UNCHANGED <<announced, active>>
             [] s.kind = "results" ->
                  /\ superseded' = [superseded EXCEPT !.pending = rest]
                  /\ UNCHANGED <<announced, active>>
        /\ ret' = "none"
        /\ UNCHANGED <<now, timerVars, sessionVars, historyVars,
                       started, hTimers, hAwaits, hostNexts, restarts>>

Dues == {t.due : t \in timers} \cup {h.due : h \in BagToSet(hTimers)}
            \cup {s.due : s \in superseded.pending}

\* time passes, up to the next timeout; the data store answers before that
AdvanceTime ==
    /\ Dues # {}
    /\ hAwaits = EmptyBag
    /\ \A d \in Dues : d > now
    /\ now' = CHOOSE d \in Dues : \A e \in Dues : d <= e
    /\ ret' = "none"
    /\ UNCHANGED <<timerVars, sessionVars, historyVars, handlerVars>>

----------------------------------------------------------------------------
Init ==
    /\ now = 1
    /\ questionCount \in 0..NumQuestions
    /\ currentPhase = "waiting"
    /\ phaseStartTime = 0
    /\ serverTimeOffset = ServerTimeOffset
    /\ goSignalTime = 0
    /\ goRecorded = FALSE
    /\ phase = "waiting"
    /\ currentQuestionIndex = -1
    /\ currentQuestion = NoQuestion
    /\ answers = <<>>
    /\ playerStats = <<>>
    /\ lastResults = <<>>
    /\ lastCorrectIndex = 0
    /\ phaseTimeout = NoTimer
    /\ timers = {}
    /\ ret = "none"
    /\ answerEntered = FALSE
    /\ resultsRuns = 0
    /\ closedBy = {}
    /\ acceptCount = [p \in PlayerIds |-> 0]
    /\ scoredCount = [p \in PlayerIds |-> 0]
    /\ destroyed = FALSE
    /\ earned = [p \in PlayerIds |-> [points |-> 0, correct |-> 0]]
    /\ started = FALSE
    /\ active = FALSE
    /\ hTimers = EmptyBag
    /\ hAwaits = EmptyBag
    /\ hostNexts = 0
    /\ announced = [ph |-> "none", q |-> -1]
    /\ restarts = 0
    /\ superseded = NoSuperseded
    /\ timerCall = NoCall
    /\ scoreCall = [op |-> "none"]

\* the orchestrator alone, under any caller
Next ==
    \/ \E p \in PlayerIds :
          AddPlayer(p, "nick", "avatar") /\ UNCHANGED outerVars
    \/ \E t \in Instants :
          StartGame(t) /\ UNCHANGED outerVars
    \/ \E t \in Instants :
          NextQuestion(t) /\ UNCHANGED outerVars
    \/ \E p \in PlayerIds, a \in AnswerIndices, ts \in SubmitInstants, t \in Instants :
          SubmitAnswer(p, a, ts, t) /\ UNCHANGED outerVars
    \/ \E tm \in timers, t1, t2 \in Instants :
          TimerFire(tm, t1, t2) /\ UNCHANGED outerVars

Spec == Init /\ [][Next]_vars

\* the orchestrator under any caller that may also tear it down
TeardownNext ==
    \/ Next
    \/ Destroy /\ UNCHANGED outerVars

TeardownSpec == Init /\ [][TeardownNext]_vars

----------------------------------------------------------------------------
(* The getters of GameSessionManager, as functions of state.playerStats *)

GetCurrentLeaderboard(stats) ==
    CalculateLeaderboard([i \in 1..Len(stats) |->
                            [playerId |-> stats[i].playerId, score |-> stats[i].score]])

GetFinalStats(stats) == CalculateFinalStats(stats)

----------------------------------------------------------------------------
(* A GameTimer used on its own *)

orchestratorVars == <<questionCount, currentPhase, phaseStartTime, sessionVars, ret,
                      historyVars, handlerVars, restartVars, scoreCall>>

SyncWithServer(serverTime, t) ==
    /\ ClockRead(t)
    /\ serverTimeOffset' = serverTime - t
    /\ now' = t
    /\ timerCall' = NoCall
    /\ UNCHANGED <<goSignalTime, goRecorded, orchestratorVars>>

TimerSendGoSignal(t) ==
    /\ ClockRead(t)
    /\ RecordGoSignal(t)
    /\ now' = t
    /\ timerCall' = NoCall
    /\ UNCHANGED orchestratorVars

TimerReset ==
    /\ Reset
    /\ timerCall' = NoCall
    /\ UNCHANGED <<now, orchestratorVars>>

TimerCalculateResponseTime(answerTimestamp) ==
    /\ timerCall' =
          IF GoSignalMissing(goSignalTime)
          THEN [NoCall EXCEPT !.op = "calculateResponseTime",
                              !.arg = answerTimestamp, !.threw = TRUE]
          ELSE [NoCall EXCEPT !.op = "calculateResponseTime",
                              !.arg = answerTimestamp,
                              !.value = CalculateResponseTime(goSignalTime,
                                                              answerTimestamp)]
    /\ UNCHANGED <<now, gameTimerVars, orchestratorVars>>

TimerIsAnswerValid(answerTimestamp) ==
    /\ timerCall' =
          IF GoSignalMissing(goSignalTime)
          THEN [NoCall EXCEPT !.op = "isAnswerValid",
                              !.arg = answerTimestamp, !.threw = TRUE]
          ELSE [NoCall EXCEPT !.op = "isAnswerValid",
                              !.arg = answerTimestamp,
                              !.valid = IsAnswerValid(goSignalTime, answerTimestamp)]
    /\ UNCHANGED <<now, gameTimerVars, orchestratorVars>>

TimerNext ==
    \/ \E serverTime \in ServerTimes, t \in TimerInstants : SyncWithServer(serverTime, t)
    \/ \E t \in TimerInstants : TimerSendGoSignal(t)
    \/ TimerReset
    \/ \E d \in TimestampOffsets : TimerCalculateResponseTime(goSignalTime + d)
    \/ \E d \in TimestampOffsets : TimerIsAnswerValid(goSignalTime + d)

TimerSpec == Init /\ [][TimerNext]_vars

----------------------------------------------------------------------------
(* A ScoreCalculator used on its own, and the getters built on it *)
(* The calculator keeps no state between calls: a behaviour makes one call, *)
(* on any input of the sets below                                           *)

AnswerLists ==
    LET choices == UNION {[1..n -> AnswerChoices] : n \in 0..MaxAnswers}
    IN  {[i \in 1..Len(c) |->
            [playerId |-> i, answerIndex |-> c[i].answerIndex,
             responseTime |-> c[i].responseTime, timestamp |-> c[i].responseTime]]
         : c \in choices}

StatsLists ==
    LET choices == UNION {[1..n -> ScoreChoices] : n \in 0..MaxEntries}
    IN  {[i \in 1..Len(c) |->
            [InitializePlayerStats(i, "nick", "avatar") EXCEPT !.score = c[i]]]
         : c \in choices}

ResultLists == UNION {[1..n -> FoldResults] : n \in 0..(MaxFolds - 1)}

RECURSIVE FoldFromZero(_)
FoldFromZero(results) ==
    IF results = <<>> THEN InitializePlayerStats(1, "nick", "avatar")
    ELSE UpdatePlayerStats(FoldFromZero(SubSeq(results, 1, Len(results) - 1)),
                           results[Len(results)])

CallCalculateScores(ans, correctIndex) ==
    /\ scoreCall.op = "none"
    /\ scoreCall' = [op |-> "calculateScores", answers |-> ans,
                     correctIndex |-> correctIndex,
                     out |-> CalculateScores(ans, correctIndex)]
    /\ UNCHANGED <<gameVars, timerCall>>

\* the caller folds the results of earlier, one after the other, into zeroed
\* stats and then folds r into what it got
CallUpdatePlayerStats(earlier, r) ==
    LET stats == FoldFromZero(earlier)
    IN  /\ scoreCall.op = "none"
        /\ scoreCall' = [op |-> "updatePlayerStats", earlier |-> earlier,
                         stats |-> stats, result |-> r,
                         statsAfter |-> PassedInAfterFold(stats, r),
                         out |-> UpdatePlayerStats(stats, r)]
    /\ UNCHANGED <<gameVars, timerCall>>

CallGetCurrentLeaderboard(stats) ==
    /\ scoreCall.op = "none"
    /\ scoreCall' = [op |-> "getCurrentLeaderboard", stats |-> stats,
                     out |-> GetCurrentLeaderboard(stats)]
    /\ UNCHANGED <<gameVars, timerCall>>

CallGetFinalStats(stats) ==
    /\ scoreCall.op = "none"
    /\ scoreCall' = [op |-> "getFinalStats", stats |-> stats,
                     out |-> GetFinalStats(stats)]
    /\ UNCHANGED <<gameVars, timerCall>>

ScoreNext ==
    \/ \E ans \in AnswerLists, c \in AnswerIndices : CallCalculateScores(ans, c)
    \/ \E earlier \in ResultLists, r \in FoldResults : CallUpdatePlayerStats(earlier, r)
    \/ \E stats \in StatsLists : CallGetCurrentLeaderboard(stats)
    \/ \E stats \in StatsLists : CallGetFinalStats(stats)

ScoreSpec == Init /\ [][ScoreNext]_vars

\* the orchestrator driven by the game handler
HandlerNext ==
    \/ \E stored \in BOOLEAN : HostStartGame(stored) /\ UNCHANGED <<questionCount, callVars, restartVars>>
    \/ \E p \in PlayerIds, a \in AnswerIndices, rt \in ClientResponseTimes :
          PlayerAnswer(p, a, rt) /\ UNCHANGED <<questionCount, callVars, restartVars>>
    \/ HostNextQuestion /\ UNCHANGED <<questionCount, callVars, restartVars>>
    \/ \E h \in BagToSet(hTimers) : HandlerTimerFire(h) /\ UNCHANGED <<questionCount, callVars, restartVars>>
    \/ ShowResultsResume /\ UNCHANGED <<questionCount, callVars, restartVars>>
    \/ \E stored \in BOOLEAN : EndGameResume(stored) /\ UNCHANGED <<questionCount, callVars, restartVars>>
    \/ \E t \in timers : OrchestratorTimerFire(t) /\ UNCHANGED <<questionCount, callVars, restartVars>>
    \/ AdvanceTime /\ UNCHANGED <<questionCount, callVars, restartVars>>

HandlerSpec == Init /\ [][HandlerNext]_vars

\* the handler-driven game with no host:next-question event and a data store
\* that does not fail
PlainNext ==
    \/ HostStartGame(TRUE) /\ UNCHANGED <<questionCount, callVars, restartVars>>
    \/ \E p \in PlayerIds, a \in AnswerIndices, rt \in ClientResponseTimes :
          PlayerAnswer(p, a, rt) /\ UNCHANGED <<questionCount, callVars, restartVars>>
    \/ \E h \in BagToSet(hTimers) : HandlerTimerFire(h) /\ UNCHANGED <<questionCount, callVars, restartVars>>
    \/ ShowResultsResume /\ UNCHANGED <<questionCount, callVars, restartVars>>
    \/ EndGameResume(TRUE) /\ UNCHANGED <<questionCount, callVars, restartVars>>
    \/ \E t \in timers : OrchestratorTimerFire(t) /\ UNCHANGED <<questionCount, callVars, restartVars>>
    \/ AdvanceTime /\ UNCHANGED <<questionCount, callVars, restartVars>>

PlainSpec == Init /\ [][PlainNext]_vars

\* every scheduled timeout runs when it is due, every awaited call to the data
\* store returns, and time goes on
Scheduling ==
    /\ WF_vars(\E h \in BagToSet(hTimers) : HandlerTimerFire(h) /\ UNCHANGED <<questionCount, callVars, restartVars>>)
    /\ WF_vars(\E t \in timers : OrchestratorTimerFire(t) /\ UNCHANGED <<questionCount, callVars, restartVars>>)
    /\ WF_vars(ShowResultsResume /\ UNCHANGED <<questionCount, callVars, restartVars>>)
    /\ WF_vars(EndGameResume(TRUE) /\ UNCHANGED <<questionCount, callVars, restartVars>>)
    /\ WF_vars(AdvanceTime /\ UNCHANGED <<questionCount, callVars, restartVars>>)

FairSpec == PlainSpec /\ Scheduling

\* the same game, with host:start-game events for the session after the first
RestartNext ==
    \/ PlainNext
    \/ \E stored \in BOOLEAN :
          HostStartGameAgain(stored) /\ UNCHANGED <<questionCount, callVars>>
    \/ \E s \in superseded.pending :
          SupersededTimerFire(s) /\ UNCHANGED <<questionCount, callVars>>

RestartSpec == Init /\ [][RestartNext]_vars

----------------------------------------------------------------------------
(* Properties of the orchestrator under any caller (Spec)                   *)

\* C1: for every question startResultsPhase runs at most once, so no answer of
\* the question is scored and folded into the stats twice
C1_ResultsEnteredAtMostOnce ==
    /\ resultsRuns <= 1
    /\ \A p \in PlayerIds : scoredCount[p] <= 1

\* a question closed by its timeout after an answer was accepted
C1_Witness ==
    /\ resultsRuns = 1
    /\ closedBy = {"timeout"}
    /\ answers # <<>>

\* C2: a question that entered its answer phase is not left (the index does not
\* move on) before results was entered for it
C2_AnswerPhaseReachesResults ==
    [][(currentQuestionIndex' # currentQuestionIndex /\ answerEntered)
          => resultsRuns >= 1]_vars

\* C3: the call that accepts the answer making the answer count equal to the
\* number of registered players ends in results, and no results timeout of the
\* question is left to fire after an early closure
C3_EarlyClosure ==
    /\ (ret = "true" /\ Len(answers) = Len(playerStats))
          => /\ phase = "results"
             /\ "early" \in closedBy
    /\ "early" \in closedBy
          => /\ closedBy = {"early"}
             /\ ~ \E t \in timers : t.cb = "results"

\* both registered players answered and the second call closed the question
C3_Witness ==
    /\ ret = "true"
    /\ Len(playerStats) = 2
    /\ Len(answers) = 2
    /\ phase = "results"
    /\ closedBy = {"early"}

\* C4: within one question at most one submitAnswer of a player returns true
C4_AcceptedAtMostOncePerPlayer ==
    \A p \in PlayerIds : acceptCount[p] <= 1

\* the answer phase is open, every caller was accepted once, and a further
\* call was refused
C4_Witness ==
    /\ phase = "answer"
    /\ ret = "false"
    /\ \A p \in PlayerIds : acceptCount[p] = 1

\* C5: a submitAnswer that returns false changes nothing of the session
C5_RejectionChangesNothing ==
    [][ret' = "false" => UNCHANGED <<timerVars, sessionVars>>]_vars

\* a call refused during the answer phase, with an answer already stored
C5_Witness ==
    /\ ret = "false"
    /\ phase = "answer"
    /\ answers # <<>>
    /\ timers # {}

\* C6: submitAnswer never raises, and the go-signal is recorded whenever the
\* phase is answer
C6_SubmitNeverThrows ==
    /\ ret # "throw"
    /\ phase = "answer" => ~GoSignalMissing(goSignalTime)

\* a call that went through both response-time computations
C6_Witness ==
    /\ ret = "true"
    /\ phase = "answer"

\* C7: every accepted answer is scored exactly once before its question is left
C7_AcceptedAnswersScoredOnce ==
    [][/\ \A p \in PlayerIds : scoredCount[p] <= acceptCount[p]
       /\ currentQuestionIndex' # currentQuestionIndex
             => \A p \in PlayerIds : acceptCount[p] = scoredCount[p]]_vars

\* the forward order of the phases; ready_check is entered outside the
\* orchestrator, so the step from waiting to countdown counts as permitted
PermittedTransitions ==
    {<<"waiting", "ready_check">>, <<"ready_check", "countdown">>,
     <<"waiting", "countdown">>, <<"countdown", "display">>,
     <<"display", "buffer">>, <<"buffer", "answer">>, <<"answer", "results">>,
     <<"results", "display">>, <<"results", "final">>, <<"final", "finished">>}

\* C8: every change of phase is a permitted transition
C8_PhaseOrder ==
    [][phase' # phase => <<phase, phase'>> \in PermittedTransitions]_vars

\* C10: at most one timeout is pending, the one the handle names
C10_OnePendingTransition ==
    /\ Cardinality(timers) <= 1
    /\ timers \subseteq {phaseTimeout}

\* question 1 is on display and question 0 never reached results (the cached
\* correct index is not its own): nextQuestion superseded its pending timeout
C10_Witness ==
    /\ currentQuestionIndex = 1
    /\ phase = "display"
    /\ lastCorrectIndex # Questions[1].correctIndex
    /\ timers = {phaseTimeout}
    /\ phaseTimeout.cb = "buffer"

----------------------------------------------------------------------------
(* Properties of the handler-driven game (HandlerSpec)                      *)

AnnouncementRank(a) ==
    CASE a.ph = "none" -> -1
      [] a.ph = "countdown" -> 0
      [] a.ph = "question" -> 4 * (a.q + 1) + 1
      [] a.ph = "answers" -> 4 * (a.q + 1) + 2
      [] a.ph = "results" -> 4 * (a.q + 1) + 3
      [] a.ph = "finished" -> 4 * (NumQuestions + MaxExtraNext + 2)

\* C9: the announcements are made in non-decreasing phase and question order
C9_AnnouncementsMonotonic ==
    [][AnnouncementRank(announced') >= AnnouncementRank(announced)]_vars

\* a step in which the function waiting for the data store goes on
Resumes(fn) == CopiesIn(fn, hAwaits') < CopiesIn(fn, hAwaits)

NextQuestionScheduled(H) == \E h \in BagToSet(H) : h.kind = "next"

\* C27: a failing write to the data store in host:start-game, showResults or
\* endGame leaves the phase, the question index and the stats of the
\* orchestrator as they are and does not stop the game: the next question is
\* still scheduled and the session is still finished and torn down
C27_StorageFailureDoesNotStopTheGame ==
    [][/\ (~started /\ started') =>
             /\ phase' = "countdown"
             /\ NextQuestionScheduled(hTimers')
       /\ Resumes("showResults") =>
             /\ NextQuestionScheduled(hTimers')
             /\ UNCHANGED <<phase, currentQuestionIndex, playerStats>>
       /\ Resumes("endGame") =>
             /\ announced'.ph = "finished"
             /\ ~active'
             /\ destroyed'
             /\ UNCHANGED <<phase, currentQuestionIndex, playerStats>>
      ]_vars

\* a step in which a timeout of the handler's chain ran its callback
HandlerTimerRan(kind) ==
    \E h \in BagToSet(hTimers) :
        h.kind = kind /\ CopiesIn(h, hTimers') < CopiesIn(h, hTimers)

\* C28: when showResults emits game:results the orchestrator has entered
\* results for the current question, so that the cached results and correct
\* index it emits are those of that question, in whatever order the timeouts
\* of the handler and of the orchestrator fire
C28_ResultsEmittedAfterResultsEntered ==
    [][(HandlerTimerRan("show") /\ currentQuestion # NoQuestion) =>
           /\ phase = "results"
           /\ resultsRuns >= 1
           /\ lastCorrectIndex = currentQuestion.correctIndex
           /\ lastResults = CalculateScores(answers, currentQuestion.correctIndex)
      ]_vars

\* C29: when the handler announces the phase answers the orchestrator is in
\* the answer phase of the current question with its go-signal recorded
C29_AnswersAnnouncedInAnswerPhase ==
    [][HandlerTimerRan("go") => (phase = "answer" /\ goRecorded)]_vars

AnswerIds(ans) == {ans[i].playerId : i \in 1..Len(ans)}

RegisteredIds(stats) == {stats[i].playerId : i \in 1..Len(stats)}

\* C12: when a submitAnswer closes the answer phase early, the players with a
\* stored answer are exactly the registered players
C12_EarlyClosureAllRegistered ==
    [][(phase = "answer" /\ phase' = "results" /\ ret' = "true")
          => AnswerIds(answers') = RegisteredIds(playerStats')]_vars

\* a step that entered results for the current question
ResultsEntered == resultsRuns' > resultsRuns

ResultsOf(results, playerId) ==
    {i \in 1..Len(results) : results[i].playerId = playerId}

StatsOf(stats, playerId) ==
    stats[CHOOSE i \in 1..Len(stats) : stats[i].playerId = playerId]

C14_CachedPairOfOneQuestion ==
    [][/\ phase' = "results" =>
             /\ currentQuestion' # NoQuestion
             /\ lastResults' = CalculateScores(answers', currentQuestion'.correctIndex)
             /\ lastCorrectIndex' = currentQuestion'.correctIndex
       /\ (lastResults' # lastResults \/ lastCorrectIndex' # lastCorrectIndex)
             => ResultsEntered]_vars

\* the results of the second question replaced those of the first
C14_Witness ==
    /\ phase = "results"
    /\ currentQuestionIndex = 1
    /\ lastResults # <<>>
    /\ lastCorrectIndex = Questions[2].correctIndex

\* C15: a registered player's score is the sum of the points, and
\* correctAnswers the number of correct ones, of the player's ScoringResults
\* since registration
C15_ScoreIsSumOfPoints ==
    \A i \in 1..Len(playerStats) :
       /\ playerStats[i].score = earned[playerStats[i].playerId].points
       /\ playerStats[i].correctAnswers = earned[playerStats[i].playerId].correct

\* a player was first in two questions while the other registered player
\* earned nothing
C15_Witness ==
    /\ Len(playerStats) = 2
    /\ \E i, j \in 1..2 :
          /\ playerStats[i].score = GetPointsForRank(1) + GetPointsForRank(1)
          /\ playerStats[i].correctAnswers = 2
          /\ playerStats[j].score = 0

\* answers is an extension of ans by answers accepted later
IsPrefix(ans, longer) ==
    /\ Len(ans) <= Len(longer)
    /\ \A i \in 1..Len(ans) : longer[i] = ans[i]

\* C16: the answer set is empty when a question is on display, a stored answer
\* stays as it is while its question is current, an answer is stored only by a
\* submitAnswer accepted in the answer phase, and results hold only players
\* whose answer was accepted in the current question
C16_AnswersBelongToTheirQuestion ==
    [][/\ phase' = "display" => answers' = <<>>
       /\ currentQuestionIndex' = currentQuestionIndex => IsPrefix(answers, answers')
       /\ (answers' # answers /\ answers' # <<>>)
             => (phase = "answer" /\ ret' = "true")
       /\ ResultsEntered =>
             \A i \in 1..Len(lastResults') :
                acceptCount'[lastResults'[i].playerId] = 1]_vars

\* the second question is on display after the first one was answered
C16_Witness ==
    /\ phase = "display"
    /\ currentQuestionIndex = 1
    /\ lastResults # <<>>
    /\ answers = <<>>

\* C17: a nextQuestion call moves the index by one and empties the answer set;
\* while the index is below the number of questions it loads that question and
\* enters display with the display timeout pending, otherwise it enters final
\* with nothing pending and the question left as it was
C17_NextQuestionSteps ==
    [][currentQuestionIndex' # currentQuestionIndex =>
          /\ currentQuestionIndex' = currentQuestionIndex + 1
          /\ answers' = <<>>
          /\ IF currentQuestionIndex' < questionCount
             THEN /\ phase' = "display"
                  /\ currentQuestion' = Questions[currentQuestionIndex' + 1]
                  /\ timers' = {phaseTimeout'}
                  /\ phaseTimeout'.cb = "buffer"
             ELSE /\ phase' = "final"
                  /\ currentQuestion' = currentQuestion
                  /\ timers' = {}
                  /\ phaseTimeout' = NoTimer]_vars

\* every configured question was displayed and the session is in final
C17_Witness ==
    /\ questionCount = NumQuestions
    /\ currentQuestionIndex = questionCount
    /\ phase = "final"
    /\ currentQuestion = Questions[NumQuestions]
    /\ timers = {}

\* C18: in countdown and in results the orchestrator has no timeout pending
C18_NoSelfScheduling ==
    phase \in {"countdown", "results"} => timers = {}

----------------------------------------------------------------------------
(* Properties of the orchestrator with destroy() (TeardownSpec)             *)

\* a step in which a scheduled callback ran and changed the phase: buffer and
\* answer are entered by callbacks only, results also by a submitAnswer that
\* returns true
PhaseChangedByTimer ==
    /\ phase' # phase
    /\ \/ phase' \in {"buffer", "answer"}
       \/ phase' = "results" /\ ret' = "none"

\* C11: once destroy() was called no scheduled callback changes the phase
C11_NoTransitionAfterDestroy ==
    [][destroyed => ~PhaseChangedByTimer]_vars

----------------------------------------------------------------------------
(* Properties of a GameTimer used on its own (TimerSpec)                    *)

\* C19: once a go-signal is recorded isAnswerValid(ts) returns true exactly when
\* 0 <= ts - goSignalTime <= window * 1000
C19_ValidExactlyInWindow ==
    (timerCall.op = "isAnswerValid" /\ goRecorded)
       => /\ ~timerCall.threw
          /\ timerCall.valid <=> /\ 0 <= timerCall.arg - goSignalTime
                                 /\ timerCall.arg - goSignalTime <= WindowMs

\* C20: calculateResponseTime and isAnswerValid fail exactly when no go-signal
\* was recorded since construction or the last reset(); calculateResponseTime
\* otherwise returns timestamp - goSignalTime (thousandths of a second)
C20_FailsExactlyWithoutGoSignal ==
    timerCall.op # "none"
       => /\ timerCall.threw <=> ~goRecorded
          /\ (timerCall.op = "calculateResponseTime" /\ ~timerCall.threw)
                => timerCall.value = timerCall.arg - goSignalTime

\* C30: once nextQuestion loaded a question, and as long as neither
\* nextQuestion nor startGame is called, the session goes from display to
\* buffer when the display timeout runs, from buffer to answer when the buffer
\* timeout runs, and from answer to results; the go-signal is recorded in the
\* step that enters answer and in no other; no phase is skipped or repeated
C30_QuestionPhaseSequence ==
    [][(/\ currentQuestionIndex' = currentQuestionIndex
        /\ phase' # "countdown"
        /\ phase \in {"display", "buffer", "answer", "results"})
       => /\ phase' # phase =>
                <<phase, phase'>> \in {<<"display", "buffer">>, <<"buffer", "answer">>,
                                      <<"answer", "results">>}
          /\ (phase' # phase /\ phase' \in {"buffer", "answer"}) =>
                /\ phaseTimeout \in timers
                /\ phaseTimeout.cb = phase'
                /\ phaseTimeout.q = currentQuestionIndex
                /\ ret' = "none"
          /\ (phase = "buffer" /\ phase' = "answer") =>
                /\ goRecorded'
                /\ goSignalTime' = now' + serverTimeOffset'
          /\ <<goSignalTime', goRecorded'>> # <<goSignalTime, goRecorded>> =>
                phase = "buffer" /\ phase' = "answer"
          /\ phase \in {"display", "buffer"} => ~goRecorded /\ GoSignalMissing(goSignalTime)
          /\ phase' = "results" => resultsRuns' = 1
      ]_vars

\* the second question went through its phases up to results, closed by its
\* answer timeout, with the go-signal recorded on the way
C30_Witness ==
    /\ phase = "results"
    /\ currentQuestionIndex = 1
    /\ answerEntered
    /\ goRecorded
    /\ ~GoSignalMissing(goSignalTime)
    /\ resultsRuns = 1
    /\ closedBy = {"timeout"}
    /\ timers = {}

\* C25: addPlayer for a registered id replaces the stats of that player with
\* zeroed stats and leaves the number of registered players and the stats of
\* every other player unchanged; a second call with the same arguments changes
\* nothing more
C25_ReRegistrationResetsOnePlayer ==
    [][\A p \in PlayerIds :
          AddPlayer(p, "nick", "avatar") /\ HasPlayer(playerStats, p) =>
              /\ Len(playerStats') = Len(playerStats)
              /\ \A i \in 1..Len(playerStats) :
                    IF playerStats[i].playerId = p
                    THEN /\ playerStats'[i].playerId = p
                         /\ playerStats'[i].nickname = "nick"
                         /\ playerStats'[i].avatar = "avatar"
                         /\ playerStats'[i].score = 0
                         /\ playerStats'[i].correctAnswers = 0
                         /\ playerStats'[i].firstPlaceCount = 0
                         /\ playerStats'[i].totalResponseTime = 0
                         /\ playerStats'[i].bestStreak = 0
                         /\ playerStats'[i].currentStreak = 0
                    ELSE playerStats'[i] = playerStats[i]
              /\ SetPlayerStats(playerStats', InitializePlayerStats(p, "nick", "avatar"))
                    = playerStats'
      ]_vars

\* a player who earned points on the question whose results are cached was
\* registered again: the points are gone, those of the other player are not
C25_Witness ==
    /\ Len(playerStats) = 2
    /\ \E i, j \in 1..2 :
          /\ i # j
          /\ playerStats[i].score = 0
          /\ playerStats[i].correctAnswers = 0
          /\ playerStats[j].score > 0
          /\ \E n \in 1..Len(lastResults) :
                /\ lastResults[n].playerId = playerStats[i].playerId
                /\ lastResults[n].points > 0
    /\ resultsRuns = 1
    /\ phase = "results"

----------------------------------------------------------------------------
(* Properties of ScoreSpec *)

PointsOfRank(rank) == IF rank = 1 THEN 10 ELSE IF rank = 2 THEN 8 ELSE IF rank = 3 THEN 5 ELSE 1

\* C21: calculateScores returns one result per answer; the k correct answers
\* come with the ranks 1..k in ascending response time and 10, 8, 5 points for
\* the ranks 1, 2, 3 and 1 point from rank 4 on; every incorrect answer has
\* rank 0 and 0 points
C21_RanksAndPoints ==
    scoreCall.op = "calculateScores" =>
        LET ans == scoreCall.answers
            out == scoreCall.out
            k == Cardinality({i \in 1..Len(ans) : ans[i].answerIndex = scoreCall.correctIndex})
        IN  /\ Len(out) = Len(ans)
            /\ \A i \in 1..Len(ans) :
                  /\ Cardinality({j \in 1..Len(out) : out[j].playerId = ans[i].playerId}) = 1
                  /\ \A j \in 1..Len(out) :
                        out[j].playerId = ans[i].playerId =>
                            /\ out[j].answerIndex = ans[i].answerIndex
                            /\ out[j].responseTime = ans[i].responseTime
                            /\ out[j].isCorrect = (ans[i].answerIndex = scoreCall.correctIndex)
            /\ \A r \in 1..k :
                  /\ Cardinality({j \in 1..Len(out) : out[j].rank = r}) = 1
                  /\ \A j \in 1..Len(out) :
                        out[j].rank = r => out[j].isCorrect /\ out[j].points = PointsOfRank(r)
            /\ \A i, j \in 1..Len(out) :
                  out[i].isCorrect /\ out[j].isCorrect /\ out[i].rank < out[j].rank
                      => out[i].responseTime <= out[j].responseTime
            /\ \A j \in 1..Len(out) :
                  /\ out[j].isCorrect => out[j].rank \in 1..k
                  /\ ~out[j].isCorrect => out[j].rank = 0 /\ out[j].points = 0

\* four correct answers: the last one has rank 4 and 1 point
C21_Witness ==
    /\ scoreCall.op = "calculateScores"
    /\ \E j \in 1..Len(scoreCall.out) :
          scoreCall.out[j].rank = 4 /\ scoreCall.out[j].points = 1

RankOf(out, playerId) ==
    LET j == CHOOSE j \in 1..Len(out) : out[j].playerId = playerId
    IN  out[j].rank

\* C22: of two correct answers with equal response times, the one stored
\* first gets the smaller rank
C22_TieGoesToFirstStored ==
    scoreCall.op = "calculateScores" =>
        \A i, j \in 1..Len(scoreCall.answers) :
            LET a == scoreCall.answers[i]
                b == scoreCall.answers[j]
            IN  /\ i < j
                /\ a.answerIndex = scoreCall.correctIndex
                /\ b.answerIndex = scoreCall.correctIndex
                /\ a.responseTime = b.responseTime
                => RankOf(scoreCall.out, a.playerId) < RankOf(scoreCall.out, b.playerId)

\* two correct answers tie behind a faster one that was stored after them
C22_Witness ==
    /\ scoreCall.op = "calculateScores"
    /\ \E i, j, f \in 1..Len(scoreCall.answers) :
          /\ i < j /\ j < f
          /\ \A n \in {i, j, f} : scoreCall.answers[n].answerIndex = scoreCall.correctIndex
          /\ scoreCall.answers[i].responseTime = scoreCall.answers[j].responseTime
          /\ scoreCall.answers[f].responseTime < scoreCall.answers[i].responseTime
          /\ RankOf(scoreCall.out, scoreCall.answers[i].playerId) = 2
          /\ RankOf(scoreCall.out, scoreCall.answers[j].playerId) = 3

RECURSIVE TrailingRun(_)
TrailingRun(results) ==
    IF results = <<>> THEN 0
    ELSE IF ~results[Len(results)].isCorrect THEN 0
    ELSE 1 + TrailingRun(SubSeq(results, 1, Len(results) - 1))

LongestRun(results) ==
    LET lengths == {0} \cup
            {j - i + 1 : <<i, j>> \in
                {ij \in (1..Len(results)) \X (1..Len(results)) :
                    /\ ij[1] <= ij[2]
                    /\ \A n \in ij[1]..ij[2] : results[n].isCorrect}}
    IN  CHOOSE m \in lengths : \A n \in lengths : n <= m

\* C23: after folding a sequence of results from zeroed stats, currentStreak is
\* the length of the trailing run of correct results and bestStreak the length
\* of the longest run
C23_Streaks ==
    scoreCall.op = "updatePlayerStats" =>
        LET results == Append(scoreCall.earlier, scoreCall.result)
        IN  /\ scoreCall.out.currentStreak = TrailingRun(results)
            /\ scoreCall.out.bestStreak = LongestRun(results)

\* correct, correct, incorrect, correct: best 2, current 1
C23_Witness ==
    /\ scoreCall.op = "updatePlayerStats"
    /\ Len(scoreCall.earlier) = 3
    /\ scoreCall.earlier[1].isCorrect /\ scoreCall.earlier[2].isCorrect
    /\ ~scoreCall.earlier[3].isCorrect
    /\ scoreCall.result.isCorrect
    /\ scoreCall.out.bestStreak = 2
    /\ scoreCall.out.currentStreak = 1

\* C24: folding an incorrect result sets currentStreak to 0 and leaves every
\* other field as it was, in a new record: the record passed in is not modified
C24_IncorrectFoldFrame ==
    scoreCall.op = "updatePlayerStats" /\ ~scoreCall.result.isCorrect =>
        /\ scoreCall.out.currentStreak = 0
        /\ \A f \in DOMAIN scoreCall.stats \ {"currentStreak"} :
              scoreCall.out[f] = scoreCall.stats[f]
        /\ DOMAIN scoreCall.out = DOMAIN scoreCall.stats
        /\ scoreCall.statsAfter = scoreCall.stats

\* an incorrect result folded into stats with a running streak
C24_Witness ==
    /\ scoreCall.op = "updatePlayerStats"
    /\ ~scoreCall.result.isCorrect
    /\ scoreCall.stats.currentStreak = 2
    /\ scoreCall.stats.score > 0
    /\ scoreCall.out.currentStreak = 0
    /\ scoreCall.out.bestStreak = 2
    /\ scoreCall.statsAfter.currentStreak = 2

\* C37: updatePlayerStats never divides by zero, and after any sequence of
\* folds from zeroed stats averageResponseTime is totalResponseTime /
\* correctAnswers when correctAnswers > 0 and 0 when correctAnswers = 0
C37_AverageDefined ==
    scoreCall.op = "updatePlayerStats" =>
        LET results == Append(scoreCall.earlier, scoreCall.result)
            out == scoreCall.out
            avg == out.averageResponseTime
        IN  /\ avg.den # 0
            /\ out.correctAnswers =
                  Cardinality({i \in 1..Len(results) : results[i].isCorrect})
            /\ IF out.correctAnswers > 0
               THEN avg.num * out.correctAnswers = out.totalResponseTime * avg.den
               ELSE avg.num = 0

\* two correct results of one and two seconds and an incorrect one between
\* them: the average is three seconds over two answers
C37_Witness ==
    /\ scoreCall.op = "updatePlayerStats"
    /\ Len(scoreCall.earlier) = 2
    /\ scoreCall.earlier[1].isCorrect
    /\ ~scoreCall.earlier[2].isCorrect
    /\ scoreCall.result.isCorrect
    /\ scoreCall.out.correctAnswers = 2
    /\ scoreCall.out.totalResponseTime = 3 * MsPerSecond
    /\ scoreCall.out.averageResponseTime = [num |-> 3 * MsPerSecond, den |-> 2]

\* C26: getCurrentLeaderboard and getFinalStats list every registered player
\* once, in non-increasing order of score; the ranks of the leaderboard are
\* 1..n by position, so that equal scores get distinct consecutive ranks
C26_LeaderboardOrder ==
    scoreCall.op \in {"getCurrentLeaderboard", "getFinalStats"} =>
        LET stats == scoreCall.stats
            out == scoreCall.out
        IN  /\ Len(out) = Len(stats)
            /\ \A i \in 1..Len(stats) :
                  /\ Cardinality({j \in 1..Len(out) : out[j].playerId = stats[i].playerId}) = 1
                  /\ \A j \in 1..Len(out) :
                        out[j].playerId = stats[i].playerId => out[j].score = stats[i].score
            /\ \A j \in 1..(Len(out) - 1) : out[j].score >= out[j + 1].score
            /\ scoreCall.op = "getCurrentLeaderboard" =>
                  \A j \in 1..Len(out) : out[j].rank = j

\* a leaderboard of three players, the last two with the same score
C26_Witness ==
    /\ scoreCall.op = "getCurrentLeaderboard"
    /\ Len(scoreCall.out) = 3
    /\ scoreCall.out[1].score > scoreCall.out[2].score
    /\ scoreCall.out[2].score = scoreCall.out[3].score
    /\ scoreCall.out[2].rank = 2
    /\ scoreCall.out[3].rank = 3

----------------------------------------------------------------------------
(* Further properties of the orchestrator under any caller (Spec)           *)

\* C31: every player id of the live answer set was added with addPlayer
C31_AnswersFromRegisteredPlayers ==
    AnswerIds(answers) \subseteq RegisteredIds(playerStats)

RECURSIVE FirstPlaces(_)
FirstPlaces(stats) ==
    IF stats = <<>> THEN 0
    ELSE Head(stats).firstPlaceCount + FirstPlaces(Tail(stats))

StatsConsistent(st) ==
    /\ 0 <= st.currentStreak
    /\ st.currentStreak <= st.bestStreak
    /\ st.bestStreak <= st.correctAnswers
    /\ st.firstPlaceCount <= st.correctAnswers
    /\ st.correctAnswers <= st.score
    /\ st.score <= 10 * st.correctAnswers

\* C38: the stats of every registered player satisfy 0 <= currentStreak <=
\* bestStreak <= correctAnswers, firstPlaceCount <= correctAnswers and
\* correctAnswers <= score <= 10 * correctAnswers; the sum of firstPlaceCount
\* over the players grows by at most one, and only in the step in which a
\* question reaches results, which each question does at most once
C38_StatsConsistent ==
    [][/\ \A i \in 1..Len(playerStats') : StatsConsistent(playerStats'[i])
       /\ FirstPlaces(playerStats') <=
             FirstPlaces(playerStats) + (IF ResultsEntered THEN 1 ELSE 0)
       /\ resultsRuns' <= 1
      ]_vars

\* both players were right on the first question and one of them again on the
\* second, where the other was wrong
C38_Witness ==
    /\ Len(playerStats) = 2
    /\ currentQuestionIndex = 1
    /\ phase = "results"
    /\ FirstPlaces(playerStats) = 2
    /\ \E i, j \in 1..2 :
          /\ playerStats[i].correctAnswers = 2
          /\ playerStats[i].bestStreak = 2
          /\ playerStats[j].correctAnswers = 1
          /\ playerStats[j].currentStreak = 0
          /\ playerStats[j].bestStreak = 1
          /\ playerStats[j].score < playerStats[i].score

\* C39: in a session, whose timer is never synchronised, the instant recorded
\* at phase entry never goes back while the clock does not, and the phase and
\* its entry instant are replaced together: the instant is that of the clock
\* reading made in the step that entered the phase getCurrentPhase reports
C39_PhaseInstantMonotonic ==
    [][/\ now' >= now => phaseStartTime' >= phaseStartTime
       /\ (currentPhase' # currentPhase \/ phaseStartTime' # phaseStartTime) =>
             /\ now <= phaseStartTime' - serverTimeOffset'
             /\ phaseStartTime' - serverTimeOffset' <= now'
       /\ currentPhase' = phase'
      ]_vars

\* results was entered later than the answer phase, which was entered at the
\* go-signal
C39_Witness ==
    /\ currentPhase = "results"
    /\ goRecorded
    /\ phaseStartTime > goSignalTime
    /\ phaseStartTime = now + serverTimeOffset

\* C34: -1 <= currentQuestionIndex <= totalQuestions, and in the phases display,
\* buffer, answer and results the current question is questions[currentQuestionIndex],
\* for any number of nextQuestion calls
C34_IndexInRange ==
    /\ -1 <= currentQuestionIndex
    /\ currentQuestionIndex <= questionCount
    /\ phase \in {"display", "buffer", "answer", "results"} =>
          /\ currentQuestionIndex \in 0..(questionCount - 1)
          /\ currentQuestion = Questions[currentQuestionIndex + 1]

----------------------------------------------------------------------------
(* Further properties of the handler-driven game (HandlerSpec)              *)

\* C32: game:finished is emitted and destroy() is called at most once, and
\* nextQuestion is not called on an orchestrator that was destroyed, however
\* host:next-question interleaves with the handler's timeouts
C32_FinishedOnce ==
    [][destroyed =>
          /\ currentQuestionIndex' = currentQuestionIndex
          /\ ~(Resumes("endGame") /\ announced' # announced)
      ]_vars

----------------------------------------------------------------------------
(* Properties of the game with no host:next-question (PlainSpec, FairSpec)  *)

\* C36: the responseTime a client sends in player:answer has no influence: a
\* player:answer step leads to the same state whatever that value is
C36_ClientResponseTimeIgnored ==
    [][\A p \in PlayerIds, a \in AnswerIndices, rt1 \in ClientResponseTimes,
          rt2 \in ClientResponseTimes :
          PlayerAnswer(p, a, rt1) => PlayerAnswer(p, a, rt2)]_vars

\* an answer was accepted at the end of the answer window: its stored response
\* time is the time since the go-signal and none of the values a client sends
C36_Witness ==
    /\ active
    /\ ret = "true"
    /\ \E i \in 1..Len(answers) :
          /\ answers[i].responseTime = ANSWER
          /\ answers[i].responseTime \notin ClientResponseTimes
          /\ answers[i].timestamp = now

\* a step that leaves a question that was loaded
LeavesQuestion ==
    /\ currentQuestionIndex' # currentQuestionIndex
    /\ currentQuestionIndex \in 0..(questionCount - 1)

GameOver ==
    /\ phase = "final"
    /\ currentQuestionIndex = questionCount
    /\ announced.ph = "finished"
    /\ ~active
    /\ destroyed

\* C35: with no host:next-question and no failing collaborator, a session
\* started by host:start-game plays every question through results, in order,
\* reaches final, emits game:finished and is removed from activeSessions
C35_GameRunsToItsEnd ==
    /\ started ~> GameOver
    /\ [][/\ LeavesQuestion => (resultsRuns = 1 /\ phase = "results")
          /\ currentQuestionIndex' \in {currentQuestionIndex, currentQuestionIndex + 1}
          /\ currentQuestionIndex' <= questionCount]_vars

\* the game of two questions is over
C35_Witness ==
    /\ GameOver
    /\ questionCount = NumQuestions
    /\ hTimers = EmptyBag
    /\ timers = {}

----------------------------------------------------------------------------
(* Properties of the game under repeated host:start-game (RestartSpec) *)

\* C33: at most one orchestrator of a session has timeouts pending: once
\* host:start-game has replaced the orchestrator of a session, no timeout of
\* the replaced orchestrator or of the handler's chain that holds it is pending
C33_OneOrchestratorPerSession == superseded.pending = {}

============================================================================
